---- MODULE Spec2Model ----
(***************************************************************************)
(* A model of two data-juicer operators:                                   *)
(*   - AverageLineLengthFilter (ops/filter/average_line_length_filter.py)  *)
(*   - GenerateInstructionMapper (ops/mapper/generate_instruction_mapper.py)*)
(*                                                                         *)
(* A text is a sequence of characters.  A Python dict is a function whose  *)
(* DOMAIN is its key set.  A float obtained by dividing two small ints is  *)
(* kept as the fraction in lowest terms, which orders and compares exactly *)
(* as the float does against the integer bounds of the filter.             *)
(***************************************************************************)
EXTENDS Integers, Sequences, FiniteSets, TLC

\* ------------------------------------------------------------------ bounds
MaxTextLen == 3
MaxBatchTextLen == 1
NumSamples == 2
MaxBound == 2
MaxRecords == 2
MaxMsgs == 3
MaxCorpus == 2
MaxInstruct == 2
MaxRespLen == 4
MaxScore == 2

\* ------------------------------------------------------ filter: the state
VARIABLES samples_list, samples_stats, samples_context, min_len, max_len,
          result

fvars == <<samples_list, samples_stats, samples_context, min_len, max_len,
           result>>

\* ------------------------------------------------------ mapper: the state
\* seed_file: the lines of the seed file, each the message list of a record.
\* constructed: how __init__ ended.  pc: the step of the process call in
\* progress.  inflight, infer_calls: inference calls awaited and made by the
\* call in progress.  scores: the similarity of each Reference Corpus entry,
\* as the scorer returned it.  The other variables are the fields and locals
\* of the same names.
VARIABLES seed_file, constructed, seed_qa_samples, reference_samples,
          instruct_num, similarity_threshold,
          pc, random_qa_samples, input_prompt, response_str, out_qa_pairs,
          scores, sim_score, out_sample, inflight, infer_calls

cvars == <<seed_file, constructed, seed_qa_samples, reference_samples,
           instruct_num, similarity_threshold>>
pvars == <<pc, random_qa_samples, input_prompt, response_str, out_qa_pairs,
           scores, sim_score, out_sample, inflight, infer_calls>>
mvars == <<cvars, pvars>>

vars == <<fvars, mvars>>

\* ---------------------------------------------------------- basic values
LF == "\n"
CR == "\r"
Chars == {"a", LF, CR}
LineBreaks == {LF, CR}

EmptyDict == [k \in {} |-> 0]
avg_line_length == "avg_line_length"
context_key == "lines"

RECURSIVE SeqsUpTo(_, _)
SeqsUpTo(S, n) ==
  IF n = 0 THEN {<<>>}
  ELSE LET shorter == SeqsUpTo(S, n - 1)
       IN shorter \cup {Append(s, c) : s \in shorter, c \in S}

Texts(n) == SeqsUpTo(Chars, n)

RECURSIVE GCD(_, _)
GCD(a, b) == IF b = 0 THEN a ELSE GCD(b, a % b)

\* Python's int / int: the quotient as a fraction in lowest terms.
TrueDiv(n, d) == LET g == GCD(n, d) IN [num |-> n \div g, den |-> d \div g]
Zero == [num |-> 0, den |-> 1]

\* int <= float and float <= int, as Python compares them.
IntLeq(k, m) == k * m.den <= m.num
LeqInt(m, k) == m.num <= k * m.den

\* str.splitlines(): a line ends at "\n", at "\r" or at "\r\n" (one break);
\* the break is dropped; text after the last break is a line only when it is
\* not empty.
RECURSIVE SplitRest(_, _, _, _)
SplitRest(s, i, cur, acc) ==
  IF i > Len(s) THEN (IF cur = <<>> THEN acc ELSE Append(acc, cur))
  ELSE IF s[i] = CR /\ i < Len(s) /\ s[i + 1] = LF
       THEN SplitRest(s, i + 2, <<>>, Append(acc, cur))
  ELSE IF s[i] \in LineBreaks
       THEN SplitRest(s, i + 1, <<>>, Append(acc, cur))
  ELSE SplitRest(s, i + 1, Append(cur, s[i]), acc)

splitlines(s) == SplitRest(s, 1, <<>>, <<>>)

\* ------------------------------------------------ filter: compute_stats
\* LinesOf with the miss branch lost: a Context record without the key reads
\* as an empty line sequence.
LinesOf_NoMiss(text, ctx, context) ==
  IF context
  THEN (IF context_key \in DOMAIN ctx THEN ctx[context_key] ELSE <<>>)
  ELSE splitlines(text)

\* lines 52-55: the line sequence of sample text, from the Context record
\* when sharing is on and the key is there, else split directly.
LinesOf(text, ctx, context) ==
  IF context /\ context_key \in DOMAIN ctx
  THEN ctx[context_key]
  ELSE splitlines(text)

\* lines 56-57: the Context record after the sample was handled.
StoreLines(ctx, lines, context) ==
  IF context /\ context_key \notin DOMAIN ctx
  THEN (context_key :> lines) @@ ctx
  ELSE ctx

\* AvgLineLength with floor division (//) in place of true division (/).
AvgLineLength_FloorDiv(text, lines) ==
  IF Len(lines) # 0 THEN TrueDiv(Len(text) \div Len(lines), 1) ELSE Zero

\* lines 58-59: the metric value.
AvgLineLength(text, lines) ==
  IF Len(lines) # 0 THEN TrueDiv(Len(text), Len(lines)) ELSE Zero

\* HandleSample without the "computed already" check of lines 49-50.
HandleSample_NoSkip(text, stat, ctx, context) ==
  LET lines == LinesOf(text, ctx, context)
  IN [stat |-> (avg_line_length :> AvgLineLength(text, lines)) @@ stat,
      ctx |-> StoreLines(ctx, lines, context)]

\* lines 48-59: the body of the loop for one sample; the Stats and Context
\* records of that sample after it.
HandleSample(text, stat, ctx, context) ==
  IF avg_line_length \in DOMAIN stat
  THEN [stat |-> stat, ctx |-> ctx]
  ELSE LET lines == LinesOf(text, ctx, context)
       IN [stat |-> (avg_line_length :> AvgLineLength(text, lines)) @@ stat,
           ctx |-> StoreLines(ctx, lines, context)]

\* ComputeStatsLoop with the Context record of the first sample used for
\* every sample of the batch.
RECURSIVE ComputeStatsLoop_SharedCtx(_, _, _, _, _)
ComputeStatsLoop_SharedCtx(i, texts, stats, ctxs, context) ==
  IF i > Len(stats) THEN [stats |-> stats, context |-> ctxs]
  ELSE LET r == HandleSample(texts[i], stats[i], ctxs[1], context)
       IN ComputeStatsLoop_SharedCtx(i + 1, texts,
                                     [stats EXCEPT ![i] = r.stat],
                                     [ctxs EXCEPT ![1] = r.ctx], context)

\* lines 47-59: the loop over the batch, from position i on; the stats and
\* context columns are threaded through as the code mutates them in place.
RECURSIVE ComputeStatsLoop(_, _, _, _, _)
ComputeStatsLoop(i, texts, stats, ctxs, context) ==
  IF i > Len(stats) THEN [stats |-> stats, context |-> ctxs]
  ELSE LET r == HandleSample(texts[i], stats[i], ctxs[i], context)
       IN ComputeStatsLoop(i + 1, texts,
                           [stats EXCEPT ![i] = r.stat],
                           [ctxs EXCEPT ![i] = r.ctx], context)

compute_stats(context) ==
  LET r == ComputeStatsLoop(1, samples_list, samples_stats, samples_context,
                            context)
  IN /\ samples_stats' = r.stats
     /\ samples_context' = r.context
     /\ UNCHANGED <<mvars, samples_list, min_len, max_len, result>>

\* ------------------------------------------------------ filter: process
\* Keep with an exclusive upper bound.
Keep_StrictUpper(stat) ==
  /\ IntLeq(min_len, stat[avg_line_length])
  /\ LeqInt(stat[avg_line_length], max_len)
  /\ ~IntLeq(max_len, stat[avg_line_length])

\* lines 66-67 and 74-75: the chained comparison.
Keep(stat) ==
  IntLeq(min_len, stat[avg_line_length]) /\ LeqInt(stat[avg_line_length], max_len)

NoResult == [mode |-> "none", index |-> 0, value |-> <<>>]

\* lines 64-71: the list of decisions, one per Stats record, in order.
ProcessList(stats) == [i \in 1..Len(stats) |-> Keep(stats[i])]

\* lines 63-71: the batched mode; a Stats record without the metric raises
\* KeyError and nothing is returned.
process_batched ==
  /\ result' =
       IF \A i \in 1..Len(samples_stats) :
            avg_line_length \in DOMAIN samples_stats[i]
       THEN [mode |-> "batched", index |-> 0,
             value |-> ProcessList(samples_stats)]
       ELSE [mode |-> "KeyError", index |-> 0, value |-> <<>>]
  /\ UNCHANGED <<mvars, samples_list, samples_stats, samples_context, min_len, max_len>>

\* lines 72-78: the single-sample mode, on the sample at position i.
process_single(i) ==
  /\ result' =
       IF avg_line_length \in DOMAIN samples_stats[i]
       THEN [mode |-> "single", index |-> i,
             value |-> <<Keep(samples_stats[i])>>]
       ELSE [mode |-> "KeyError", index |-> i, value |-> <<>>]
  /\ UNCHANGED <<mvars, samples_list, samples_stats, samples_context, min_len, max_len>>

\* ------------------------------------------- filter: the rest of the pass
\* Another operator sharing the line split stores it for the samples that
\* lack it (the Context Store's get-or-compute).
OtherLinesOp ==
  /\ \E i \in 1..Len(samples_context) : context_key \notin DOMAIN samples_context[i]
  /\ samples_context' =
       [i \in 1..Len(samples_context) |->
          StoreLines(samples_context[i], splitlines(samples_list[i]), TRUE)]
  /\ UNCHANGED <<mvars, samples_list, samples_stats, min_len, max_len, result>>

\* The fused pass ends and the Context records are dropped.
ClearContext ==
  /\ \E i \in 1..Len(samples_context) : samples_context[i] # EmptyDict
  /\ samples_context' = [i \in 1..Len(samples_context) |-> EmptyDict]
  /\ UNCHANGED <<mvars, samples_list, samples_stats, min_len, max_len, result>>

\* Between fused passes a mapper rewrites a sample's text in place.
EditText(i, t) ==
  /\ samples_context[i] = EmptyDict
  /\ t # samples_list[i]
  /\ samples_list' = [samples_list EXCEPT ![i] = t]
  /\ UNCHANGED <<mvars, samples_stats, samples_context, min_len, max_len, result>>

\* ========================================================== the mapper
\* A string is a sequence of tokens: "x" is an ordinary character, "\n" is
\* white space, Q_MARK and A_MARK are the question and answer markers of
\* QA_PAIR_TEMPLATE and QA_EXTRACTION_PATTERN.  None is Python's None.
Q_MARK == "[Q]"
A_MARK == "[A]"
None == <<"None">>
Tokens == {"x", LF, Q_MARK, A_MARK}
Contents == {<<>>, <<"x">>}
Roles == {"user", "assistant"}

\* lines 207-209: a message of a seed record.
SeedMessage(role, content) == [role |-> role, content |-> content]

RECURSIVE Concat(_)
Concat(ss) == IF ss = <<>> THEN <<>> ELSE Head(ss) \o Concat(Tail(ss))

\* str.join: the pieces with sep between them.
RECURSIVE Join(_, _)
Join(sep, ss) ==
  IF ss = <<>> THEN <<>>
  ELSE IF Len(ss) = 1 THEN ss[1]
  ELSE ss[1] \o sep \o Join(sep, Tail(ss))

\* ------------------------------------------------- mapper: construction
\* lines 203-215, from message i on: user_input is the content of the last
\* user message seen (None before the first), and every assistant message
\* appends a pair.
RECURSIVE ParseChatmlLoop(_, _, _, _)
ParseChatmlLoop(messages, i, user_input, qa_pairs) ==
  IF i > Len(messages) THEN qa_pairs
  ELSE IF messages[i].role = "user"
       THEN ParseChatmlLoop(messages, i + 1, messages[i].content, qa_pairs)
  ELSE IF messages[i].role = "assistant"
       THEN ParseChatmlLoop(messages, i + 1, user_input,
                            Append(qa_pairs, <<user_input, messages[i].content>>))
  ELSE ParseChatmlLoop(messages, i + 1, user_input, qa_pairs)

parse_chatml_str(messages) == ParseChatmlLoop(messages, 1, None, <<>>)

\* lines 174-183: the records that gave at least one pair, in file order.
RECURSIVE load_seed_qa_samples(_)
load_seed_qa_samples(file) ==
  IF file = <<>> THEN <<>>
  ELSE LET qa_pairs == parse_chatml_str(Head(file))
           rest == load_seed_qa_samples(Tail(file))
       IN IF Len(qa_pairs) > 0 THEN <<qa_pairs>> \o rest ELSE rest

\* line 168: str.join raises TypeError on an item that is not a str.
Joinable(qa_samples) ==
  \A r \in 1..Len(qa_samples) : \A k \in 1..Len(qa_samples[r]) :
    qa_samples[r][k][1] # None /\ qa_samples[r][k][2] # None

\* lines 167-170: one reference string per seed record.
ReferenceSamples(qa_samples) ==
  [r \in 1..Len(qa_samples) |->
     Join(<<LF>>, [k \in 1..Len(qa_samples[r]) |->
                     Join(<<LF>>, qa_samples[r][k])]) \o <<LF>>]

Unset == <<>>

\* lines 162-170 of __init__.
Construct ==
  /\ constructed = "new"
  /\ LET qa == load_seed_qa_samples(seed_file)
     IN /\ seed_qa_samples' = qa
        /\ IF Len(qa) = 0
           THEN constructed' = "ValueError" /\ reference_samples' = Unset
           ELSE IF ~Joinable(qa)
           THEN constructed' = "TypeError" /\ reference_samples' = Unset
           ELSE constructed' = "ready"
                /\ reference_samples' = ReferenceSamples(qa)
  /\ UNCHANGED <<fvars, seed_file, instruct_num, similarity_threshold, pvars>>

\* ------------------------------------------------------ mapper: process
\* lines 187-191: the pairs with a non-empty question and answer, each
\* through QA_PAIR_TEMPLATE.
RECURSIVE format_qa_pairs(_)
format_qa_pairs(qa_pairs) ==
  IF qa_pairs = <<>> THEN <<>>
  ELSE LET q == Head(qa_pairs)[1]
           a == Head(qa_pairs)[2]
       IN (IF q # None /\ q # <<>> /\ a # None /\ a # <<>>
           THEN <<Q_MARK, LF>> \o q \o <<LF, A_MARK, LF>> \o a \o <<LF>>
           ELSE <<>>)
          \o format_qa_pairs(Tail(qa_pairs))

\* lines 193-200: each drawn record through EXAMPLE_TEMPLATE, the whole
\* through the prompt template.
build_prompt(qa_samples) ==
  <<"PROMPT", LF>>
  \o Concat([r \in 1..Len(qa_samples) |->
               <<LF, "EXAMPLE", LF, LF>> \o format_qa_pairs(qa_samples[r])])
  \o <<LF>>

\* random.sample(population, k): the sequences of k elements at distinct
\* positions of the population.
Draws(population, k) ==
  {[j \in 1..k |-> population[f[j]]] :
     f \in {g \in [1..k -> 1..Len(population)] :
              \A a, b \in 1..k : a # b => g[a] # g[b]}}

\* str.strip(): leading and trailing white space removed.
RECURSIVE Strip(_)
Strip(s) ==
  IF s = <<>> THEN s
  ELSE IF Head(s) = LF THEN Strip(Tail(s))
  ELSE IF s[Len(s)] = LF THEN Strip(SubSeq(s, 1, Len(s) - 1))
  ELSE s

\* The first position of s from p on that holds token t, Len(s) + 1 if none.
RECURSIVE Find(_, _, _)
Find(s, t, p) ==
  IF p > Len(s) THEN Len(s) + 1
  ELSE IF s[p] = t THEN p
  ELSE Find(s, t, p + 1)

\* re.findall(QA_EXTRACTION_PATTERN, s, re.DOTALL) from position p on: a
\* match starts at the next question marker, its question runs to the first
\* answer marker after it, its answer to the next question marker or the
\* end; the groups exclude the white space around them.
RECURSIVE FindAll(_, _)
FindAll(s, p) ==
  LET i == Find(s, Q_MARK, p)
      j == Find(s, A_MARK, i + 1)
      m == Find(s, Q_MARK, j + 1)
  IN IF i > Len(s) \/ j > Len(s) THEN <<>>
     ELSE << <<Strip(SubSeq(s, i + 1, j - 1)), Strip(SubSeq(s, j + 1, m - 1))>> >>
          \o FindAll(s, m)

\* lines 222-227: the loop over the matches from match k on, with the pairs
\* and the concatenation built so far.
RECURSIVE ParseLoop(_, _, _, _)
ParseLoop(matches, k, pairs, str) ==
  IF k > Len(matches) THEN [out_qa_pairs |-> pairs, response_str |-> str]
  ELSE ParseLoop(matches, k + 1,
                 Append(pairs, <<Strip(matches[k][1]), Strip(matches[k][2])>>),
                 str \o Strip(matches[k][1]) \o <<LF>>
                     \o Strip(matches[k][2]) \o <<LF>>)

\* lines 217-233: the pairs, stripped, and their concatenation.
parse_response(response) == ParseLoop(FindAll(response, 1), 1, <<>>, <<>>)

\* lines 239-245: the loop over the candidates, keeping the running maximum.
RECURSIVE MaxScoreLoop(_, _)
MaxScoreLoop(cand_scores, max_score) ==
  IF cand_scores = <<>> THEN max_score
  ELSE MaxScoreLoop(Tail(cand_scores),
                    IF Head(cand_scores) > max_score
                    THEN Head(cand_scores) ELSE max_score)

max_rouge_l_score(cand_scores) == MaxScoreLoop(cand_scores, 0)

\* Accepted with the comparison exclusive, as the docstring words it.
Accepted_Strict(score) == score < similarity_threshold

\* line 278.
Accepted(score) == score <= similarity_threshold

\* Message without its content key.
Message_NoContent(role, content) == [role |-> role]

\* lines 280-281: one entry of the output message list.
Message(role, content) == [role |-> role, content |-> content]

\* MessageList that stops before the last answer.
RECURSIVE MessageList_Partial(_)
MessageList_Partial(qa_pairs) ==
  IF qa_pairs = <<>> THEN <<>>
  ELSE IF Len(qa_pairs) = 1 THEN <<Message("user", qa_pairs[1][1])>>
  ELSE <<Message("user", qa_pairs[1][1]), Message("assistant", qa_pairs[1][2])>>
       \o MessageList_Partial(Tail(qa_pairs))

\* lines 279-281: two messages per pair, appended in order.
RECURSIVE MessageList(_)
MessageList(qa_pairs) ==
  IF qa_pairs = <<>> THEN <<>>
  ELSE <<Message("user", qa_pairs[1][1]), Message("assistant", qa_pairs[1][2])>>
       \o MessageList(Tail(qa_pairs))

\* json.dumps of a dict: the JSON document, kept as the value it denotes (an
\* object is a function of its keys, an array a sequence).
json_dumps(obj) == obj

\* lines 269 and 285-288: the returned sample.
Sample(message_list) == [text |-> json_dumps([messages |-> message_list])]

\* No sample was returned yet.
NoSample == [text |-> [none |-> TRUE]]
NoPrompt == None
NoScore == 0 - 1

Locals0 ==
  /\ random_qa_samples = <<>>
  /\ input_prompt = NoPrompt
  /\ response_str = <<>>
  /\ out_qa_pairs = <<>>
  /\ scores = <<>>
  /\ sim_score = NoScore
  /\ out_sample = NoSample
  /\ inflight = 0
  /\ infer_calls = 0

\* line 247-248: process is called for the next entry of the dataset.
Call ==
  /\ constructed = "ready"
  /\ pc = "IDLE"
  /\ pc' = "DRAW"
  /\ UNCHANGED <<fvars, cvars, random_qa_samples, input_prompt, response_str,
                 out_qa_pairs, scores, sim_score, out_sample, inflight,
                 infer_calls>>

\* lines 250-251: random.sample raises ValueError when the sample is larger
\* than the population.
Draw ==
  /\ pc = "DRAW"
  /\ IF instruct_num > Len(seed_qa_samples)
     THEN pc' = "RAISED" /\ UNCHANGED random_qa_samples
     ELSE /\ random_qa_samples' \in Draws(seed_qa_samples, instruct_num)
          /\ pc' = "PROMPT"
  /\ UNCHANGED <<fvars, cvars, input_prompt, response_str, out_qa_pairs,
                 scores, sim_score, out_sample, inflight, infer_calls>>

\* lines 252-253.
Prompt ==
  /\ pc = "PROMPT"
  /\ input_prompt' = build_prompt(random_qa_samples)
  /\ pc' = "INFER"
  /\ UNCHANGED <<fvars, cvars, random_qa_samples, response_str, out_qa_pairs,
                 scores, sim_score, out_sample, inflight, infer_calls>>

\* lines 255 and 260: model.generate is called with the prompt.
InferCall ==
  /\ pc = "INFER"
  /\ inflight = 0
  /\ input_prompt # NoPrompt
  /\ inflight' = inflight + 1
  /\ infer_calls' = infer_calls + 1
  /\ UNCHANGED <<fvars, cvars, pc, random_qa_samples, input_prompt,
                 response_str, out_qa_pairs, scores, sim_score, out_sample>>

\* lines 256 and 263-264: the call returns some text.
InferReturn ==
  /\ pc = "INFER"
  /\ inflight = 1
  /\ response_str' \in SeqsUpTo(Tokens, MaxRespLen)
  /\ inflight' = inflight - 1
  /\ pc' = "PARSE"
  /\ UNCHANGED <<fvars, cvars, random_qa_samples, input_prompt, out_qa_pairs,
                 scores, sim_score, out_sample, infer_calls>>

\* Parse without the early return of lines 268-269.
Parse_AlwaysScore ==
  /\ pc = "PARSE"
  /\ \E r \in {parse_response(response_str)} :
       /\ out_qa_pairs' = r.out_qa_pairs
       /\ response_str' = r.response_str
       /\ out_sample' = out_sample
       /\ pc' = "SCORE"
  /\ UNCHANGED <<fvars, cvars, random_qa_samples, input_prompt, scores,
                 sim_score, inflight, infer_calls>>

\* lines 265-269.
Parse ==
  /\ pc = "PARSE"
  /\ \E r \in {parse_response(response_str)} :
       /\ out_qa_pairs' = r.out_qa_pairs
       /\ response_str' = r.response_str
       /\ IF r.response_str = <<>>
          THEN out_sample' = Sample(<<>>) /\ pc' = "DONE"
          ELSE out_sample' = out_sample /\ pc' = "SCORE"
  /\ UNCHANGED <<fvars, cvars, random_qa_samples, input_prompt, scores,
                 sim_score, inflight, infer_calls>>

\* lines 271-278: the scorer gives each Reference Corpus entry a score, and
\* the maximum is compared with the threshold.
Score ==
  /\ pc = "SCORE"
  /\ \E sc \in [1..Len(reference_samples) -> 0..MaxScore] :
       /\ scores' = sc
       /\ sim_score' = max_rouge_l_score(sc)
       /\ pc' = IF Accepted(max_rouge_l_score(sc)) THEN "EMIT" ELSE "REJECT"
  /\ UNCHANGED <<fvars, cvars, random_qa_samples, input_prompt, response_str,
                 out_qa_pairs, out_sample, inflight, infer_calls>>

\* lines 279-281 and 285-288.
Emit ==
  /\ pc = "EMIT"
  /\ out_sample' = Sample(MessageList(out_qa_pairs))
  /\ pc' = "DONE"
  /\ UNCHANGED <<fvars, cvars, random_qa_samples, input_prompt, response_str,
                 out_qa_pairs, scores, sim_score, inflight, infer_calls>>

\* lines 283 and 285-288.
Reject ==
  /\ pc = "REJECT"
  /\ out_sample' = Sample(<<>>)
  /\ pc' = "DONE"
  /\ UNCHANGED <<fvars, cvars, random_qa_samples, input_prompt, response_str,
                 out_qa_pairs, scores, sim_score, inflight, infer_calls>>

\* The call has returned; its locals are gone.
Return ==
  /\ pc = "DONE"
  /\ pc' = "IDLE"
  /\ random_qa_samples' = <<>>
  /\ input_prompt' = NoPrompt
  /\ response_str' = <<>>
  /\ out_qa_pairs' = <<>>
  /\ scores' = <<>>
  /\ sim_score' = NoScore
  /\ out_sample' = NoSample
  /\ inflight' = 0
  /\ infer_calls' = 0
  /\ UNCHANGED <<fvars, cvars>>

\* ------------------------------------------------- mapper: specifications
FilterIdle ==
  /\ samples_list = <<>>
  /\ samples_stats = <<>>
  /\ samples_context = <<>>
  /\ min_len = 1
  /\ max_len = 1
  /\ result = [mode |-> "none", index |-> 0, value |-> <<>>]

Messages == {SeedMessage(r, c) : r \in Roles, c \in Contents}
SeedFiles == SeqsUpTo(SeqsUpTo(Messages, MaxMsgs), MaxRecords)

\* The seed file of the demos: single-turn and two-turn records in turn.
DemoRecord(k) ==
  IF k % 2 = 1
  THEN <<SeedMessage("user", <<"x">>), SeedMessage("assistant", <<"x">>)>>
  ELSE <<SeedMessage("user", <<"x">>), SeedMessage("assistant", <<>>),
         SeedMessage("user", <<"x">>), SeedMessage("assistant", <<"x">>)>>
DemoFile(n) == [k \in 1..n |-> DemoRecord(k)]

\* Before construction, for any seed file.
SeedInit ==
  /\ FilterIdle
  /\ seed_file \in SeedFiles
  /\ constructed = "new"
  /\ seed_qa_samples = Unset
  /\ reference_samples = Unset
  /\ instruct_num = 1
  /\ similarity_threshold = MaxScore
  /\ pc = "IDLE"
  /\ Locals0

SeedNext == Construct

SeedSpec == SeedInit /\ [][SeedNext]_vars

\* After construction from the first lines of the demo seed file.
MapperInit ==
  /\ FilterIdle
  /\ \E n \in 1..MaxCorpus : seed_file = DemoFile(n)
  /\ constructed = "ready"
  /\ seed_qa_samples = load_seed_qa_samples(seed_file)
  /\ reference_samples = ReferenceSamples(seed_qa_samples)
  /\ instruct_num \in 1..MaxInstruct
  /\ similarity_threshold \in 0..MaxScore
  /\ pc = "IDLE"
  /\ Locals0

MapperNext ==
  \/ Call
  \/ Draw
  \/ Prompt
  \/ InferCall
  \/ InferReturn
  \/ Parse
  \/ Score
  \/ Emit
  \/ Reject
  \/ Return

MapperSpec == MapperInit /\ [][MapperNext]_vars

MapperIdle ==
  /\ seed_file = <<>>
  /\ constructed = "new"
  /\ seed_qa_samples = Unset
  /\ reference_samples = Unset
  /\ instruct_num = 1
  /\ similarity_threshold = MaxScore
  /\ pc = "IDLE"
  /\ Locals0

\* ------------------------------------------------- filter: specifications
FilterInit(n, len) ==
  /\ samples_list \in [1..n -> Texts(len)]
  /\ samples_stats = [i \in 1..n |-> EmptyDict]
  /\ samples_context = [i \in 1..n |-> EmptyDict]
  /\ min_len \in 1..MaxBound
  /\ max_len \in 1..MaxBound
  /\ result = NoResult
  /\ MapperIdle

SampleInit == FilterInit(1, MaxTextLen)

SampleNext ==
  \/ \E context \in BOOLEAN : compute_stats(context)
  \/ process_batched
  \/ \E i \in 1..Len(samples_stats) : process_single(i)
  \/ OtherLinesOp
  \/ ClearContext
  \/ \E i \in 1..Len(samples_list), t \in Texts(MaxTextLen) : EditText(i, t)

SampleSpec == SampleInit /\ [][SampleNext]_vars

BatchInit == FilterInit(NumSamples, MaxBatchTextLen)

BatchNext ==
  \/ \E context \in BOOLEAN : compute_stats(context)
  \/ process_batched
  \/ \E i \in 1..Len(samples_stats) : process_single(i)
  \/ OtherLinesOp
  \/ ClearContext

BatchSpec == BatchInit /\ [][BatchNext]_vars


\* ------------------------------------------------------- filter: claims
HasMetric(stat) == avg_line_length \in DOMAIN stat
Positions == 1..Len(samples_stats)

\* The number of lines of a text, counted from its line boundaries: one per
\* "\n", one per "\r" that no "\n" follows, and one for a last line that no
\* boundary ends.
LineCount(T) ==
  Cardinality({p \in 1..Len(T) :
                 \/ T[p] = LF
                 \/ T[p] = CR /\ ~(p < Len(T) /\ T[p + 1] = LF)})
  + (IF Len(T) > 0 /\ T[Len(T)] \notin LineBreaks THEN 1 ELSE 0)

\* C1: once a sample's Stats record holds the average-line-length metric, no
\* step (a later compute_stats with context sharing on or off, a change of
\* the text, a change of the Context record) changes the stored value; and
\* compute_stats applied twice leaves the Stats that one application leaves.
C1_Memoized ==
  [][/\ \A i \in Positions :
          HasMetric(samples_stats[i]) =>
            /\ HasMetric(samples_stats'[i])
            /\ samples_stats'[i][avg_line_length]
                 = samples_stats[i][avg_line_length]
     /\ \A c1, c2 \in BOOLEAN :
          LET once == ComputeStatsLoop(1, samples_list, samples_stats,
                                       samples_context, c1)
              twice == ComputeStatsLoop(1, samples_list, once.stats,
                                        once.context, c2)
          IN twice.stats = once.stats]_vars

\* C1 witness: the stored metric is no longer the metric of the current text
\* (the text changed after the metric was computed) and the Context record
\* was filled again after that change.
C1_Witness ==
  \E i \in Positions :
    /\ HasMetric(samples_stats[i])
    /\ samples_stats[i][avg_line_length]
         # AvgLineLength(samples_list[i], splitlines(samples_list[i]))
    /\ context_key \in DOMAIN samples_context[i]

C3_Metric ==
  [][\A i \in Positions :
       (~HasMetric(samples_stats[i]) /\ HasMetric(samples_stats'[i])) =>
         LET T == samples_list[i]
             L == LineCount(T)
             m == samples_stats'[i][avg_line_length]
         IN IF L > 0
            THEN m.num * L = Len(T) * m.den /\ m.den > 0
            ELSE m = Zero]_vars

\* C3 witness: a text of three characters in two lines has the metric 3/2.
C3_Witness ==
  \E i \in Positions :
    /\ Len(samples_list[i]) = 3
    /\ LineCount(samples_list[i]) = 2
    /\ HasMetric(samples_stats[i])
    /\ samples_stats[i][avg_line_length] = [num |-> 3, den |-> 2]

\* C8: a stored line sequence is the one a direct split of the text gives,
\* and from the Context record as it stands compute_stats with context
\* sharing stores the metric that compute_stats without it stores, leaving
\* in the Context record the direct split of the text.
C8_ContextOptimisation ==
  \A i \in Positions :
    LET T == samples_list[i]
        with == HandleSample(T, EmptyDict, samples_context[i], TRUE)
        without == HandleSample(T, EmptyDict, samples_context[i], FALSE)
    IN /\ context_key \in DOMAIN samples_context[i] =>
            samples_context[i][context_key] = splitlines(T)
       /\ with.stat = without.stat
       /\ with.ctx[context_key] = splitlines(T)
       /\ without.ctx = samples_context[i]

\* C8 witness: a compute_stats with context sharing stored the lines of a
\* text of more than one line, with the metric.
C8_Witness ==
  \E i \in Positions :
    /\ context_key \in DOMAIN samples_context[i]
    /\ Len(samples_context[i][context_key]) > 1
    /\ HasMetric(samples_stats[i])
    /\ result.mode = "none"

\* C10: a step that changes the Stats or Context records leaves every text
\* unchanged and gives each sample the Stats and Context records that
\* handling this sample in a batch of its own gives; a batched decision at a
\* position is the decision for that sample in a batch of its own.
C10_Isolation ==
  [][/\ (samples_stats' # samples_stats) =>
          /\ samples_list' = samples_list
          /\ \E c \in BOOLEAN : \A i \in Positions :
               LET alone == ComputeStatsLoop(1, <<samples_list[i]>>,
                                             <<samples_stats[i]>>,
                                             <<samples_context[i]>>, c)
               IN /\ samples_stats'[i] = alone.stats[1]
                  /\ samples_context'[i] = alone.context[1]
     /\ (result'.mode = "batched") =>
          \A i \in Positions :
            result'.value[i] = ProcessList(<<samples_stats'[i]>>)[1]]_vars

\* C10 witness: a batch of two samples whose metrics differ, decided
\* differently by one batched process call.
C10_Witness ==
  /\ Len(samples_stats) >= 2
  /\ result.mode = "batched"
  /\ \E i, j \in Positions :
       /\ samples_stats[i][avg_line_length] # samples_stats[j][avg_line_length]
       /\ result.value[i] # result.value[j]
       /\ context_key \in DOMAIN samples_context[i]

\* ------------------------------------------------------- mapper: claims
OutMessages == out_sample.text.messages

\* pairs is a pairing of the messages of a record: pair k is the content of
\* a user message and of an assistant message after it, and the assistant
\* messages of successive pairs come in conversation order.
ValidPairing(messages, pairs) ==
  \E u, v \in [1..Len(pairs) -> 1..Len(messages)] :
    /\ \A k \in 1..Len(pairs) :
         /\ u[k] < v[k]
         /\ messages[u[k]].role = "user"
         /\ messages[v[k]].role = "assistant"
         /\ pairs[k] = <<messages[u[k]].content, messages[v[k]].content>>
    /\ \A k \in 1..(Len(pairs) - 1) : v[k] < v[k + 1]

\* C4: every pair the seed loader emitted for a record is made of a user
\* message seen in that record and an assistant message that follows it, in
\* conversation order; no pair is emitted before a user message was seen.
C4_SeedPairing ==
  constructed # "new" =>
    \E rec \in [1..Len(seed_qa_samples) -> 1..Len(seed_file)] :
      /\ \A k \in 1..(Len(seed_qa_samples) - 1) : rec[k] < rec[k + 1]
      /\ \A k \in 1..Len(seed_qa_samples) :
           ValidPairing(seed_file[rec[k]], seed_qa_samples[k])

C6_OutputShape ==
  pc = "DONE" =>
    /\ DOMAIN out_sample = {"text"}
    /\ DOMAIN out_sample.text = {"messages"}
    /\ \/ OutMessages = <<>>
       \/ /\ Len(OutMessages) = 2 * Len(out_qa_pairs)
          /\ \A k \in 1..Len(out_qa_pairs) :
               /\ OutMessages[2 * k - 1]
                    = [role |-> "user", content |-> out_qa_pairs[k][1]]
               /\ OutMessages[2 * k]
                    = [role |-> "assistant", content |-> out_qa_pairs[k][2]]

\* C6 witness: two extracted pairs returned as four messages.
C6_Witness ==
  /\ pc = "DONE"
  /\ Len(out_qa_pairs) = 2
  /\ Len(OutMessages) = 4

ProtocolEdges ==
  {<<"IDLE", "DRAW">>, <<"DRAW", "PROMPT">>, <<"DRAW", "RAISED">>,
   <<"PROMPT", "INFER">>, <<"INFER", "PARSE">>, <<"PARSE", "SCORE">>,
   <<"PARSE", "DONE">>, <<"SCORE", "EMIT">>, <<"SCORE", "REJECT">>,
   <<"EMIT", "DONE">>, <<"REJECT", "DONE">>, <<"DONE", "IDLE">>}

\* The steps of a process call after its inference call has returned.
Advance == Parse \/ Score \/ Emit \/ Reject

\* C9: a process call moves DRAW, PROMPT, INFER, PARSE in that order and
\* never back; it calls inference once, with the prompt built, and has at
\* most one call in flight; it enters SCORE only with at least one extracted
\* pair and otherwise returns the empty message list straight from PARSE;
\* and once the inference call has returned the call is never stuck before
\* it ends, from EMIT with the pairs or from REJECT (or the empty parse)
\* with the empty list.
C9_Protocol ==
  /\ [][/\ pc' # pc => <<pc, pc'>> \in ProtocolEdges
        /\ infer_calls' > infer_calls =>
             /\ pc = "INFER" /\ input_prompt # NoPrompt
             /\ infer_calls = 0 /\ infer_calls' = 1 /\ inflight = 0
        /\ inflight' \in {0, 1}
        /\ (pc = "INFER" /\ pc' = "PARSE") => infer_calls = 1 /\ inflight = 1
        /\ pc' = "SCORE" => Len(out_qa_pairs') >= 1
        /\ (pc = "PARSE" /\ pc' # pc /\ Len(out_qa_pairs') = 0) =>
             pc' = "DONE" /\ out_sample'.text.messages = <<>>
        /\ (pc # "DONE" /\ pc' = "DONE") =>
             /\ infer_calls' = 1 /\ inflight' = 0
             /\ Len(out_qa_pairs') >= 1 => pc \in {"EMIT", "REJECT"}
             /\ pc = "EMIT" => out_sample'.text.messages # <<>>
             /\ pc # "EMIT" => out_sample'.text.messages = <<>>]_vars
  /\ [](pc \in {"PARSE", "SCORE", "EMIT", "REJECT"} => ENABLED Advance)

\* C9 witness: a call that made its one inference call, extracted a pair,
\* scored it above the threshold and returned from REJECT.
C9_Witness ==
  /\ pc = "DONE"
  /\ infer_calls = 1
  /\ Len(out_qa_pairs) >= 1
  /\ sim_score > similarity_threshold
  /\ OutMessages = <<>>


====
